---- MODULE Spec2Model ----
(***************************************************************************)
(* Procedural pose animations of skinview3d: the PlayerAnimation update    *)
(* contract, the easing functions and the Idle / Waving / Walking /        *)
(* Running / Flying / Function variants, over a player target whose        *)
(* attributes the animations assign.                                       *)
(*                                                                         *)
(* In the animations JavaScript numbers are modelled in fixed point.        *)
(* Time-like values (deltaTime, progress, the t of Flying and of the       *)
(* compiled Waving) are integers in units of 1/TimeUnit; every other real  *)
(* (angles, eased fractions, positions) is an integer in units of 1/Scale. *)
(* The waving clock of src/src/animation.ts is in units of 1/WaveUnit.     *)
(* Products and quotients round to nearest, symmetrically in the sign, as  *)
(* IEEE arithmetic does.  The easing functions taken by themselves are     *)
(* modelled over a scaled-down binary floating-point format.               *)
(***************************************************************************)
EXTENDS Integers, Sequences, FiniteSets, TLC

VARIABLES anim, player, last, acc, ops, ease

vars == <<anim, player, last, acc, ops, ease>>

---------------------------------------------------------------------------
(* Number representation *)

TimeUnit == 10 ^ 2
Scale == 10 ^ 4
WaveUnit == 10 ^ 3

Abs(x) == IF x < 0 THEN -x ELSE x

Min(a, b) == IF a < b THEN a ELSE b

\* num / den rounded to the nearest integer, ties away from zero (den > 0)
Round(num, den) ==
  IF num >= 0 THEN (num + den \div 2) \div den
  ELSE -((-num + den \div 2) \div den)

\* product of two Scale-d values
Mul(a, b) == Round(a * b, Scale)

\* JavaScript's % : the remainder takes the sign of the dividend
JsRem(a, b) == IF a >= 0 THEN a % b ELSE -((-a) % b)

\* Math.PI: the double nearest to pi lies below pi; so does this one
PI == 31415

\* pi itself, to the precision at which Math.sin reduces its argument
PiMicro == 3141593

\* sin on [0, pi/4] by its series, argument and result in 1/Scale
SinSeries(y) ==
  LET y2 == Mul(y, y)
      p3 == Scale - Round(y2, 42)
      p2 == Scale - Round(Mul(y2, p3), 20)
      p1 == Scale - Round(Mul(y2, p2), 6)
  IN Mul(y, p1)

\* cos on [0, pi/4] by its series, argument and result in 1/Scale
CosSeries(y) ==
  LET y2 == Mul(y, y)
      p3 == Scale - Round(y2, 30)
      p2 == Scale - Round(Mul(y2, p3), 12)
  IN Scale - Round(Mul(y2, p2), 2)

\* sin on [0, pi/2], argument in 1e-6 rad, result in 1/Scale
SinQ(q) ==
  IF 4 * q <= PiMicro THEN SinSeries(Round(q, 100))
  ELSE CosSeries(Round(PiMicro \div 2 - q, 100))

\* sin of an angle in 1e-6 rad
SinMicro(u) ==
  LET r == u % (2 * PiMicro)
      h == PiMicro \div 2
  IN IF r <= h THEN SinQ(r)
     ELSE IF r <= PiMicro THEN SinQ(PiMicro - r)
     ELSE IF r <= PiMicro + h THEN -SinQ(r - PiMicro)
     ELSE -SinQ(2 * PiMicro - r)

\* Math.sin, Math.cos of an angle in 1/Scale rad
Sin(x) == SinMicro(x * 100)

Cos(x) == SinMicro(x * 100 + PiMicro \div 2)

\* ln(0.9) in 1/Scale
LnNineTenths == -1054

RECURSIVE PowNineTenthsInt(_)
PowNineTenthsInt(n) == IF n = 0 THEN Scale ELSE Round(9 * PowNineTenthsInt(n - 1), 10)

\* Math.pow(0.9, t) for t >= 0 in 1/TimeUnit
PowNineTenths(t) ==
  LET n == t \div TimeUnit
      z == Round((t % TimeUnit) * LnNineTenths, TimeUnit)
      z2 == Mul(z, z)
      frac == Scale + z + Round(z2, 2) + Round(Mul(z2, z), 6)
  IN Mul(PowNineTenthsInt(n), frac)

---------------------------------------------------------------------------
(* src/src/utils.ts, in fixed point: as the animations call it *)

easeInOutQuad(t) ==
  IF 2 * t < Scale THEN 2 * Mul(t, t)
  ELSE Scale - Round(Mul(-2 * t + 2 * Scale, -2 * t + 2 * Scale), 2)

easeOut(t) == Scale - Mul(Scale - t, Scale - t)

---------------------------------------------------------------------------
(* src/src/utils.ts, in floating point.  A double is scaled down to a      *)
(* significand of FloatPrecision bits on a grid of 2^-FloatFrac: a value   *)
(* is an integer number of grid units, and every operation rounds its      *)
(* exact result to the nearest representable value, ties to even.          *)

FloatPrecision == 6
FloatFrac == 13

FloatOne == 2 ^ FloatFrac

RECURSIVE BitLength(_)
BitLength(n) == IF n = 0 THEN 0 ELSE 1 + BitLength(n \div 2)

\* num / den rounded to the nearest integer, ties to even (num >= 0, den > 0)
RoundEven(num, den) ==
  LET q == num \div den
      r == num % den
  IN IF 2 * r < den THEN q
     ELSE IF 2 * r > den THEN q + 1
     ELSE IF q % 2 = 0 THEN q ELSE q + 1

\* the representable value nearest to num / den grid units
FloatRound(num, den) ==
  LET mag == Abs(num)
      len == BitLength(mag \div den)
      ulp == IF len > FloatPrecision THEN 2 ^ (len - FloatPrecision) ELSE 1
      r == RoundEven(mag, den * ulp) * ulp
  IN IF num < 0 THEN -r ELSE r

FloatAdd(a, b) == FloatRound(a + b, 1)

FloatSub(a, b) == FloatRound(a - b, 1)

FloatMul(a, b) == FloatRound(a * b, FloatOne)

FloatEaseInOutQuadLow(t) == FloatMul(FloatMul(2 * FloatOne, t), t)

FloatEaseInOutQuadHigh(t) ==
  LET x == FloatAdd(FloatMul(-2 * FloatOne, t), 2 * FloatOne)
  IN FloatSub(FloatOne, FloatRound(FloatMul(x, x), 2))

FloatEaseInOutQuad(t) ==
  IF 2 * t < FloatOne THEN FloatEaseInOutQuadLow(t) ELSE FloatEaseInOutQuadHigh(t)

FloatEaseIn(t) == FloatMul(t, t)

\* easeOut computed as easeIn
FloatEaseOutAsEaseIn(t) == FloatMul(t, t)

FloatEaseOut(t) ==
  FloatSub(FloatOne, FloatMul(FloatSub(FloatOne, t), FloatSub(FloatOne, t)))

---------------------------------------------------------------------------
(* The target: the attributes of PlayerObject that the animations assign *)

Equipments == {"cape", "elytra"}

PlayerInit(be) ==
  [ rotX |-> 0, rotY |-> 0,
    headRotX |-> 0, headRotZ |-> 0,
    torsoPosX |-> 0, torsoRotZ |-> 0,
    leftArmRotX |-> 0, leftArmRotZ |-> 0,
    rightArmRotX |-> 0, rightArmRotZ |-> 0,
    leftLegRotX |-> 0, rightLegRotX |-> 0, rightLegRotZ |-> 0,
    capeRotX |-> 0, capeVisible |-> (be = "cape"),
    elytraVisible |-> (be = "elytra"),
    leftWingRotX |-> 0, leftWingRotZ |-> 0,
    rightWingRotX |-> 0, rightWingRotZ |-> 0,
    backEquipment |-> be ]

\* player.elytra.updateRightWing(): the right wing mirrors the left one
updateRightWing(p) ==
  [p EXCEPT !.rightWingRotX = p.leftWingRotX, !.rightWingRotZ = -p.leftWingRotZ]

---------------------------------------------------------------------------
(* src/src/animation.ts: the animation instances *)

Kinds == {"Function", "Idle", "Waving", "WavingLib", "Walking", "Running", "Flying"}

\* new XAnimation(): the field initialisers of PlayerAnimation and its subclasses
NewAnimation(kind) ==
  [ kind |-> kind,
    speed |-> 1,
    paused |-> FALSE,
    progress |-> 0,
    m |-> IF kind = "Walking" THEN Round(7 * Scale, 10) ELSE 0,
    w |-> 0,
    t |-> LET progress == 0 IN Round(progress * 18, 10) * (WaveUnit \div TimeUnit) ]

\* FunctionAnimation.animate with fn = (player, progress) => player.rotation.y = progress
FunctionAnimate(a, p, delta) ==
  [ anim |-> a,
    player |-> [p EXCEPT !.rotY = a.progress],
    seen |-> <<a.progress, delta>> ]

IdleAnimate(a, p, delta) ==
  LET t == a.progress * 2 * (Scale \div TimeUnit)
      basicArmRotationZ == Round(PI * 2, 100)
  IN [ anim |-> a,
       player |-> [p EXCEPT
         !.leftArmRotZ = Round(Cos(t) * 3, 100) + basicArmRotationZ,
         !.rightArmRotZ = Round(Cos(t + PI) * 3, 100) - basicArmRotationZ],
       seen |-> <<a.progress, delta>> ]

\* WalkingAnimate with each arm in phase with the same-side leg
WalkingAnimateArmsInPhase(a, p, delta) ==
  LET t == a.progress * 8 * (Scale \div TimeUnit)
      multiplier == a.m
      basicCapeRotationX == Round(PI * 15, 100)
  IN [ anim |-> a,
       player |-> [p EXCEPT
         !.leftLegRotX = Mul(Sin(t), multiplier),
         !.rightLegRotX = Mul(Sin(t + PI), multiplier),
         !.leftArmRotX = Mul(Sin(t), multiplier),
         !.rightArmRotX = Mul(Sin(t + PI), multiplier),
         !.capeRotX = Round(Sin(t) * 5, 100) + basicCapeRotationX],
       seen |-> <<a.progress, delta>> ]

WalkingAnimate(a, p, delta) ==
  LET t == a.progress * 8 * (Scale \div TimeUnit)
      multiplier == a.m
      basicCapeRotationX == Round(PI * 15, 100)
  IN [ anim |-> a,
       player |-> [p EXCEPT
         !.leftLegRotX = Mul(Sin(t), multiplier),
         !.rightLegRotX = Mul(Sin(t + PI), multiplier),
         !.leftArmRotX = Mul(Sin(t + PI), multiplier),
         !.rightArmRotX = Mul(Sin(t), multiplier),
         !.capeRotX = Round(Sin(t) * 5, 100) + basicCapeRotationX],
       seen |-> <<a.progress, delta>> ]

RunningAnimate(a, p, delta) ==
  LET t == a.progress * 11 * (Scale \div TimeUnit)
      basicCapeRotationX == Round(PI * 25, 100)
  IN [ anim |-> a,
       player |-> [p EXCEPT
         !.leftLegRotX = Round(Sin(t) * 13, 10),
         !.rightLegRotX = Round(Sin(t + PI) * 13, 10),
         !.leftArmRotX = Round(Sin(t + PI) * 13, 10),
         !.rightArmRotX = Round(Sin(t) * 13, 10),
         !.capeRotX = Round(Sin(Round(t * 8, 10)) * 2, 10) + basicCapeRotationX],
       seen |-> <<a.progress, delta>> ]

\* clamp without its upper bound
clampFromBelow(num, min, max) == IF num <= min THEN min ELSE num

clamp(num, min, max) == IF num <= min THEN min ELSE IF num >= max THEN max ELSE num

\* startProgress of FlyingAnimation.animate; t * t is in 1/TimeUnit^2 = 1/Scale
FlyingT(progress) == IF progress > 0 THEN progress * 20 ELSE 0

FlyingStartProgress(progress) ==
  clamp(Round(FlyingT(progress) * FlyingT(progress), 100), 0, Scale)

elytraRotationX == 3491

elytraTarget == 2618

FlyingAnimate(a, p, delta) ==
  LET t == FlyingT(a.progress)
      startProgress == FlyingStartProgress(a.progress)
      rotX == Round(Mul(startProgress, PI), 2)
      basicArmRotationZ == Mul(Round(PI * 25, 100), startProgress)
      elytraRotationZ == Round(PI, 2)
      interpolation == PowNineTenths(t)
      q == [p EXCEPT
         !.rotX = rotX,
         !.headRotX = IF 2 * startProgress > Scale THEN Round(PI, 4) - rotX ELSE 0,
         !.leftArmRotZ = basicArmRotationZ,
         !.rightArmRotZ = -basicArmRotationZ,
         !.leftWingRotX = elytraRotationX + Mul(interpolation, elytraTarget - elytraRotationX),
         !.leftWingRotZ = elytraRotationZ + Mul(interpolation, elytraTarget - elytraRotationZ)]
  IN [ anim |-> a, player |-> updateRightWing(q), seen |-> <<a.progress, delta>> ]

---------------------------------------------------------------------------
(* WavingAnimation of src/src/animation.ts: its own clock t and counter w *)

\* l = Math.PI / -1.15
WaveL == -Round(PI * 100, 115)

\* the branch t <= 1: the pose is raised
WavingRaise(p, t) ==
  LET l == WaveL
      e == easeOut(t)
  IN [p EXCEPT
       !.headRotZ = Round(Mul(e, l), 18),
       !.torsoPosX = Round(Mul(e, -l) * 10, 15),
       !.torsoRotZ = Round(Mul(e, l), 20),
       !.rightArmRotZ = Mul(e, l),
       !.leftArmRotZ = Round(Mul(e, -l), 8),
       !.rightLegRotZ = Round(Mul(e, l), 10)]

\* the branch 1 < t <= 2: the pose is lowered
WavingLower(p, t) ==
  LET l == WaveL
      q == easeInOutQuad(t - Scale)
      o == easeOut(t - Scale)
  IN [p EXCEPT
       !.headRotZ = Round(l, 18) - Round(Mul(q, l), 18),
       !.torsoPosX = Round(-l * 10, 15) - Round(Mul(q, -l) * 10, 15),
       !.torsoRotZ = Round(l, 20) - Round(Mul(q, l), 20),
       !.rightArmRotZ = l - Mul(o, l),
       !.leftArmRotZ = Round(-l, 8) - Round(Mul(o, -l), 8),
       !.rightLegRotZ = Round(l, 10) - Round(Mul(q, l), 10)]

\* the branch w >= 5 with the comparison player.backEquipment === 'cape'
WavingFinishedComparing(p) ==
  LET q == [p EXCEPT !.rightArmRotZ = 0]
  IN IF q.backEquipment = "cape" THEN [q EXCEPT !.capeVisible = TRUE]
     ELSE [q EXCEPT !.elytraVisible = TRUE]

\* the branch w >= 5.  The condition (player.backEquipment = 'cape') is an
\* assignment: it stores 'cape' and is truthy, so the else branch is dead.
WavingFinished(p) ==
  LET q == [p EXCEPT !.rightArmRotZ = 0, !.backEquipment = "cape"]
  IN IF q.backEquipment # "" THEN [q EXCEPT !.capeVisible = TRUE]
     ELSE [q EXCEPT !.elytraVisible = TRUE]

\* 0.016 in 1/WaveUnit
WaveStep == 16

\* the clock tested after its increment: if (this.t >= 2)
WavingClockTestedLate(a) ==
  LET stepped == [a EXCEPT !.t = @ + WaveStep]
  IN IF stepped.t >= 2 * WaveUnit THEN [stepped EXCEPT !.w = @ + 1, !.t = 0] ELSE stepped

\* this.t += 0.016; if (t >= 2) { this.w++; this.t = 0 }, t the clock read on entry
WavingClock(a) ==
  LET t == a.t
      stepped == [a EXCEPT !.t = @ + WaveStep]
  IN IF t >= 2 * WaveUnit THEN [stepped EXCEPT !.w = @ + 1, !.t = 0] ELSE stepped

WavingPose(a, p) ==
  LET t == a.t * (Scale \div WaveUnit)
  IN IF a.w < 5
     THEN LET q == [p EXCEPT !.capeVisible = FALSE, !.elytraVisible = FALSE]
          IN IF t <= Scale THEN WavingRaise(q, t)
             ELSE IF t <= 2 * Scale THEN WavingLower(q, t)
             ELSE [q EXCEPT !.rightArmRotZ = 0]
     ELSE WavingFinished(p)

WavingAnimate(a, p, delta) ==
  [ anim |-> WavingClock(a), player |-> WavingPose(a, p), seen |-> <<a.progress, delta>> ]

---------------------------------------------------------------------------
(* WavingAnimation of src/libs/animation.js: a function of progress *)

waveCount == 4

\* easeOut(Math.min(1, x)), x = t scaled by num / den / (waveCount * 2)
WaveRamp(t, num, den) ==
  easeOut(Min(Scale, Round(Round(t * (Scale \div TimeUnit) * num, den), waveCount * 2)))

WavingLibPose(progress, p) ==
  LET t == progress * 12
      folded == JsRem(Round(t * 12, 10), 2 * waveCount * TimeUnit) - waveCount * TimeUnit
      easedT == easeInOutQuad(Abs(Round(folded * (Scale \div TimeUnit), waveCount)))
      swing == JsRem(Mul(Round(PI * 10, 12), Scale - easedT), PI * 4)
      rightArmRotationZ == IF t >= waveCount * 5 * TimeUnit THEN 0 ELSE swing
      raising == t < waveCount * 4 * TimeUnit
      ta == t - waveCount * 4 * TimeUnit
      back == Min(Scale, Round(ta * 2 * (Scale \div TimeUnit), waveCount * 2))
      rightLegRotationZ ==
        IF raising THEN Mul(Round(PI, 8), WaveRamp(t, 10, 11))
        ELSE Mul(Round(PI, 8), Scale - easeOut(back))
      leftArmRotationZ ==
        IF raising THEN Mul(Round(PI, 12), WaveRamp(t, 12, 10))
        ELSE Mul(Round(PI, 12), Scale - easeOut(back))
      headRotationZ ==
        IF raising THEN Mul(Round(PI, 18), WaveRamp(t, 10, 13))
        ELSE Mul(Round(PI, 18), Scale - easeInOutQuad(back))
      torsoPositionX ==
        IF raising THEN Mul(Round(PI * 10, 12), WaveRamp(t, 10, 12))
        ELSE Mul(Round(PI * 10, 12), Scale - easeInOutQuad(back))
      torsoRotationZ ==
        IF raising THEN Mul(Round(PI, 15), WaveRamp(t, 10, 12))
        ELSE Mul(Round(PI, 15), Scale - easeInOutQuad(back))
      q == IF raising THEN [p EXCEPT !.capeVisible = FALSE, !.elytraVisible = FALSE]
           ELSE [p EXCEPT !.capeVisible = TRUE]
  IN [q EXCEPT
       !.rightLegRotZ = -rightLegRotationZ,
       !.leftArmRotZ = leftArmRotationZ,
       !.headRotZ = -headRotationZ,
       !.torsoRotZ = -torsoRotationZ,
       !.torsoPosX = torsoPositionX,
       !.rightArmRotZ = -rightArmRotationZ]

WavingLibAnimate(a, p, delta) ==
  [ anim |-> a, player |-> WavingLibPose(a.progress, p), seen |-> <<a.progress, delta>> ]

---------------------------------------------------------------------------
(* PlayerAnimation.update *)

\* this.animate(player, delta), dispatched on the class of the instance
Animate(a, p, delta) ==
  CASE a.kind = "Function" -> FunctionAnimate(a, p, delta)
    [] a.kind = "Idle" -> IdleAnimate(a, p, delta)
    [] a.kind = "Waving" -> WavingAnimate(a, p, delta)
    [] a.kind = "WavingLib" -> WavingLibAnimate(a, p, delta)
    [] a.kind = "Walking" -> WalkingAnimate(a, p, delta)
    [] a.kind = "Running" -> RunningAnimate(a, p, delta)
    [] a.kind = "Flying" -> FlyingAnimate(a, p, delta)

\* update without the test of paused
UpdateResultIgnoringPause(a, p, deltaTime) ==
  LET delta == deltaTime * a.speed
      r == Animate(a, p, delta)
  IN [ anim |-> [r.anim EXCEPT !.progress = @ + delta],
       player |-> r.player,
       hooks |-> <<r.seen>> ]

\* update advancing progress before it calls animate
UpdateResultProgressFirst(a, p, deltaTime) ==
  IF a.paused THEN [ anim |-> a, player |-> p, hooks |-> <<>> ]
  ELSE LET delta == deltaTime * a.speed
           r == Animate([a EXCEPT !.progress = @ + delta], p, delta)
       IN [ anim |-> r.anim, player |-> r.player, hooks |-> <<r.seen>> ]

\* update(player, deltaTime) on instance a: the instance and the target after
\* the call, and the calls of the pose hook it made with what each one saw
UpdateResult(a, p, deltaTime) ==
  IF a.paused THEN [ anim |-> a, player |-> p, hooks |-> <<>> ]
  ELSE LET delta == deltaTime * a.speed
           r == Animate(a, p, delta)
       IN [ anim |-> [r.anim EXCEPT !.progress = @ + delta],
            player |-> r.player,
            hooks |-> <<r.seen>> ]

---------------------------------------------------------------------------
(* The state machine: the calls an embedding application makes *)

Record(op, i, deltaTime, hooks) == [ op |-> op, i |-> i, dt |-> deltaTime, hooks |-> hooks ]

Delivered(hooks) == IF Len(hooks) = 0 THEN 0 ELSE hooks[1][2]

\* update with progress held in a field shared by every instance
UpdateSharedProgress(i, deltaTime) ==
  LET r == UpdateResult(anim[i], player, deltaTime)
  IN /\ anim' = [j \in DOMAIN anim |->
                  IF j = i THEN r.anim ELSE [anim[j] EXCEPT !.progress = r.anim.progress]]
     /\ player' = r.player
     /\ last' = Record("update", i, deltaTime, r.hooks)
     /\ acc' = [acc EXCEPT ![i] = @ + Delivered(r.hooks)]

\* instance i's update(player, deltaTime)
Update(i, deltaTime) ==
  LET r == UpdateResult(anim[i], player, deltaTime)
  IN /\ anim' = [anim EXCEPT ![i] = r.anim]
     /\ player' = r.player
     /\ last' = Record("update", i, deltaTime, r.hooks)
     /\ acc' = [acc EXCEPT ![i] = @ + Delivered(r.hooks)]

\* animation.speed = s
SetSpeed(i, s) ==
  /\ anim' = [anim EXCEPT ![i].speed = s]
  /\ last' = Record("speed", i, 0, <<>>)
  /\ UNCHANGED <<player, acc>>

\* animation.paused = b
SetPaused(i, b) ==
  /\ anim' = [anim EXCEPT ![i].paused = b]
  /\ last' = Record("paused", i, 0, <<>>)
  /\ UNCHANGED <<player, acc>>

\* animation.progress = v
SetProgress(i, v) ==
  /\ anim' = [anim EXCEPT ![i].progress = v]
  /\ acc' = [acc EXCEPT ![i] = v]
  /\ last' = Record("progress", i, 0, <<>>)
  /\ UNCHANGED player

\* walking.m = v
SetM(i, v) ==
  /\ anim[i].kind = "Walking"
  /\ anim' = [anim EXCEPT ![i].m = v]
  /\ last' = Record("m", i, 0, <<>>)
  /\ UNCHANGED <<player, acc>>

NoEase == [ t |-> 0, done |-> FALSE, easeIn |-> 0, easeOut |-> 0, easeInOutQuad |-> 0 ]

\* n fresh instances of the given kinds, and a target at rest
InitOf(kinds, n) ==
  /\ anim \in [1..n -> {NewAnimation(k) : k \in kinds}]
  /\ player \in {PlayerInit(be) : be \in Equipments}
  /\ last = Record("new", 1, 0, <<>>)
  /\ acc = [i \in 1..n |-> 0]
  /\ ops = 0
  /\ ease = NoEase

(* Bounds of the exploration *)

DeltaTimes == {-20, 0, 20}
Speeds == {-1, 0, 1, 2}
Progresses == {0, 50}
Multipliers == {Round(7 * Scale, 10), Scale}
ProgressBelow == 20
MaxProgress == 60
ShallowWaves == 1

WaveKinds == {"Waving", "WavingLib"}
WaveDeltaTimes == {0, 40}
MaxWaveProgress == 200
MaxWaves == 6

PairKinds == {"Function", "Waving", "Walking"}
MaxOps == 3

\* the update keeps progress within [lo, hi] and the wave counter below cap
Within(i, deltaTime, lo, hi, cap) ==
  LET a == anim[i]
      next == IF a.paused THEN a.progress ELSE a.progress + deltaTime * a.speed
  IN lo <= next /\ next <= hi /\ a.w < cap

Init == InitOf(Kinds, 1)

Next ==
  \/ \E i \in DOMAIN anim, dt \in DeltaTimes :
       Within(i, dt, -ProgressBelow, MaxProgress, ShallowWaves) /\ Update(i, dt)
       /\ UNCHANGED <<ops, ease>>
  \/ \E i \in DOMAIN anim, s \in Speeds : SetSpeed(i, s) /\ UNCHANGED <<ops, ease>>
  \/ \E i \in DOMAIN anim, b \in BOOLEAN : SetPaused(i, b) /\ UNCHANGED <<ops, ease>>
  \/ \E i \in DOMAIN anim, v \in Progresses : SetProgress(i, v) /\ UNCHANGED <<ops, ease>>
  \/ \E i \in DOMAIN anim, v \in Multipliers : SetM(i, v) /\ UNCHANGED <<ops, ease>>

Spec == Init /\ [][Next]_vars

InitWave == InitOf(WaveKinds, 1)

NextWave ==
  \/ \E i \in DOMAIN anim, dt \in WaveDeltaTimes :
       Within(i, dt, 0, MaxWaveProgress, MaxWaves) /\ Update(i, dt)
       /\ UNCHANGED <<ops, ease>>
  \/ \E i \in DOMAIN anim, b \in BOOLEAN : SetPaused(i, b) /\ UNCHANGED <<ops, ease>>

SpecWave == InitWave /\ [][NextWave]_vars

InitPair == InitOf(PairKinds, 2)

NextPair ==
  /\ ops < MaxOps
  /\ ops' = ops + 1
  /\ UNCHANGED ease
  /\ \/ \E i \in DOMAIN anim, dt \in DeltaTimes :
          Within(i, dt, -ProgressBelow, MaxProgress, ShallowWaves) /\ Update(i, dt)
     \/ \E i \in DOMAIN anim, s \in Speeds : SetSpeed(i, s)
     \/ \E i \in DOMAIN anim, b \in BOOLEAN : SetPaused(i, b)
     \/ \E i \in DOMAIN anim, v \in Progresses : SetProgress(i, v)

SpecPair == InitPair /\ [][NextPair]_vars

\* the doubles of [0, 1]
FloatInputs == { n \in 0..FloatOne : FloatRound(n, 1) = n }

\* the easing functions applied to an input drawn from the doubles of [0, 1]
InitEase ==
  /\ anim = [i \in 1..1 |-> NewAnimation("Idle")]
  /\ player = PlayerInit("cape")
  /\ last = Record("new", 1, 0, <<>>)
  /\ acc = [i \in 1..1 |-> 0]
  /\ ops = 0
  /\ \E t \in FloatInputs : ease = [NoEase EXCEPT !.t = t]

ApplyEase ==
  /\ ~ease.done
  /\ ease' = [ t |-> ease.t, done |-> TRUE, easeIn |-> FloatEaseIn(ease.t),
               easeOut |-> FloatEaseOut(ease.t),
               easeInOutQuad |-> FloatEaseInOutQuad(ease.t) ]
  /\ UNCHANGED <<anim, player, last, acc, ops>>

SpecEase == InitEase /\ [][ApplyEase]_vars

---------------------------------------------------------------------------
(* Properties.  A step "is an update of i" when it leaves last'.op =       *)
(* "update" and last'.i = i; the unprimed variables are the state before   *)
(* the call, the primed ones the state after it.                           *)

UpdateStep == last'.op = "update"

Before == anim[last'.i]

After == anim'[last'.i]

ScaledDelta == last'.dt * Before.speed

\* C1: an update made while paused changes no field of the instance (progress,
\* speed, the waving counter w and clock t) and no attribute of the target,
\* and does not invoke the pose hook, whatever the variant and the deltaTime.
C1_PausedUpdateChangesNothing ==
  [][ (UpdateStep /\ Before.paused) =>
        /\ anim' = anim
        /\ player' = player
        /\ acc' = acc
        /\ last'.hooks = <<>> ]_vars

C1_Witness ==
  /\ last.op = "update" /\ last.dt # 0 /\ last.hooks = <<>>
  /\ anim[1].kind = "Waving" /\ anim[1].paused
  /\ anim[1].t > 0 /\ anim[1].progress > 0
  /\ player.rightArmRotZ # 0

\* C2: an unpaused update invokes the pose hook exactly once, with
\* delta = deltaTime * speed and with progress still at its value from before
\* the call, and afterwards progress is the old progress plus delta; so progress
\* is the sum of the deltas handed to the hook (since it was last assigned), and
\* with speed 0 the hook runs with delta 0 and progress stays.
C2_HookThenProgress ==
  [][ (UpdateStep /\ ~Before.paused) =>
        /\ last'.hooks = << <<Before.progress, ScaledDelta>> >>
        /\ After.progress = Before.progress + ScaledDelta
        /\ After.progress = acc'[last'.i]
        /\ acc'[last'.i] = acc[last'.i] + ScaledDelta
        /\ (Before.kind = "Function" => player'.rotY = Before.progress)
        /\ (Before.speed = 0 => After.progress = Before.progress /\ last'.hooks[1][2] = 0) ]_vars

C2_Witness ==
  /\ last.op = "update" /\ last.dt # 0
  /\ anim[1].kind = "Function" /\ anim[1].speed = 0 /\ ~anim[1].paused
  /\ anim[1].progress # 0
  /\ last.hooks = << <<anim[1].progress, 0>> >>
  /\ player.rotY = anim[1].progress

\* C3: the pose an update writes is determined by progress alone: two
\* consecutive unpaused updates of an instance that see the same progress (speed
\* 0 or deltaTime 0) assign the same values, so the second leaves the target as
\* the first left it.
C3_PoseDeterminedByProgress ==
  [][ ( /\ UpdateStep /\ last.op = "update"
        /\ last.i = last'.i
        /\ last.hooks # <<>> /\ last'.hooks # <<>>
        /\ last.hooks[1][1] = last'.hooks[1][1] )
      => player' = player ]_vars

\* C4: Waving.  In an unpaused update the counter w goes up by exactly one
\* when the clock read on entry has reached 2, and the clock restarts from 0;
\* in every other update w is unchanged and the clock advances by one step; w
\* never decreases in any step; and every update made with w at or past 5
\* (compiled variant: with t at or past waveCount * 5) sets rightArm.rotation.z
\* to exactly 0.
C4_WaveCounter ==
  [][ /\ \A i \in DOMAIN anim : anim'[i].w >= anim[i].w
      /\ (UpdateStep /\ ~Before.paused /\ Before.kind = "Waving") =>
           /\ (Before.t >= 2 * WaveUnit => After.w = Before.w + 1 /\ After.t = 0)
           /\ (Before.t < 2 * WaveUnit => After.w = Before.w /\ After.t = Before.t + WaveStep)
           /\ (Before.w >= 5 => player'.rightArmRotZ = 0)
      /\ (UpdateStep /\ ~Before.paused /\ Before.kind = "WavingLib") =>
           /\ After.w = Before.w /\ After.t = Before.t
           /\ (Before.progress * 12 >= waveCount * 5 * TimeUnit => player'.rightArmRotZ = 0) ]_vars

C4_Witness ==
  /\ last.op = "update" /\ last.hooks # <<>>
  /\ anim[1].kind = "Waving"
  /\ anim[1].w = 6 /\ anim[1].t = 0
  /\ player.rightArmRotZ = 0

\* C5: no update changes the target's backEquipment.
C5_BackEquipmentUntouched ==
  [][ UpdateStep => player'.backEquipment = player.backEquipment ]_vars

\* C6: Waving.  An unpaused update in the raise/active phase (w < 5; compiled
\* variant: t < waveCount * 4) sets cape.visible and elytra.visible to false;
\* one past that phase sets cape.visible to true whatever backEquipment is;
\* and no step turns elytra.visible from false to true.
C6_WavingVisibility ==
  [][ /\ (UpdateStep /\ ~Before.paused /\ Before.kind = "Waving") =>
           /\ (Before.w < 5 => ~player'.capeVisible /\ ~player'.elytraVisible)
           /\ (Before.w >= 5 => player'.capeVisible)
      /\ (UpdateStep /\ ~Before.paused /\ Before.kind = "WavingLib") =>
           /\ (Before.progress * 12 < waveCount * 4 * TimeUnit =>
                 ~player'.capeVisible /\ ~player'.elytraVisible)
           /\ (Before.progress * 12 >= waveCount * 4 * TimeUnit => player'.capeVisible)
      /\ (player'.elytraVisible => player.elytraVisible) ]_vars

C6_Witness ==
  /\ last.op = "update" /\ last.hooks # <<>>
  /\ anim[1].kind = "Waving"
  /\ anim[1].w = 5 /\ anim[1].t = WaveStep
  /\ player.capeVisible /\ ~player.elytraVisible

\* C7: Flying.  startProgress lies in [0, 1], body pitch in [0, pi/2], the arm
\* Z-rotations in [-pi/4, pi/4] with rightArm = -leftArm; an update at
\* progress <= 0 writes what an update at progress 0 writes (zero pitch, head
\* and splay, wings at their t = 0 angles); head X-rotation is 0 when
\* startProgress <= 0.5 and pi/4 - pitch when it is above; at progress 0.5
\* startProgress is 1, pitch pi/2, head -pi/4.
C7_Flying ==
  [][ (UpdateStep /\ ~Before.paused /\ Before.kind = "Flying") =>
        LET sp == FlyingStartProgress(Before.progress)
            atZero == FlyingAnimate([Before EXCEPT !.progress = 0], player, 0).player
        IN /\ 0 <= sp /\ sp <= Scale
           /\ 0 <= player'.rotX /\ player'.rotX <= Round(PI, 2)
           /\ player'.rotX = Round(Mul(sp, PI), 2)
           /\ Abs(player'.leftArmRotZ) <= Round(PI, 4)
           /\ player'.rightArmRotZ = -player'.leftArmRotZ
           /\ (Before.progress <= 0 =>
                 /\ player' = atZero
                 /\ player'.rotX = 0 /\ player'.headRotX = 0
                 /\ player'.leftArmRotZ = 0 /\ player'.rightArmRotZ = 0
                 /\ player'.leftWingRotX = elytraTarget
                 /\ player'.leftWingRotZ = elytraTarget)
           /\ (2 * sp <= Scale => player'.headRotX = 0)
           /\ (2 * sp > Scale => player'.headRotX = Round(PI, 4) - player'.rotX)
           /\ (Before.progress = TimeUnit \div 2 =>
                 /\ sp = Scale
                 /\ player'.rotX = Round(PI, 2)
                 /\ player'.headRotX = -Round(PI, 4)) ]_vars

C7_Witness ==
  /\ last.op = "update" /\ last.hooks # <<>>
  /\ anim[1].kind = "Flying"
  /\ last.hooks[1][1] = TimeUnit \div 2
  /\ player.rotX = Round(PI, 2)
  /\ player.headRotX = -Round(PI, 4)

Swing(a) ==
  IF a.kind = "Walking"
  THEN [ left |-> Mul(Sin(a.progress * 8 * (Scale \div TimeUnit)), a.m),
         right |-> Mul(Sin(a.progress * 8 * (Scale \div TimeUnit) + PI), a.m) ]
  ELSE [ left |-> Round(Sin(a.progress * 11 * (Scale \div TimeUnit)) * 13, 10),
         right |-> Round(Sin(a.progress * 11 * (Scale \div TimeUnit) + PI) * 13, 10) ]

\* C8 as stated: Walking and Running.  After every update rightLeg.x =
\* -leftLeg.x exactly, leftArm.x = rightLeg.x, rightArm.x = leftLeg.x, leftLeg.x
\* = sin(k * progress before the call) * amplitude, and at progress 0 all four
\* swing rotations are exactly 0.
C8_SwingExactlyOpposite ==
  [][ (UpdateStep /\ ~Before.paused /\ Before.kind \in {"Walking", "Running"}) =>
        /\ player'.rightLegRotX = -player'.leftLegRotX
        /\ player'.leftArmRotX = player'.rightLegRotX
        /\ player'.rightArmRotX = player'.leftLegRotX
        /\ player'.leftLegRotX = Swing(Before).left
        /\ (Before.progress = 0 =>
              /\ player'.leftLegRotX = 0 /\ player'.rightLegRotX = 0
              /\ player'.leftArmRotX = 0 /\ player'.rightArmRotX = 0) ]_vars

\* C8 amended: Walking and Running.  After every update leftArm.x =
\* rightLeg.x and rightArm.x = leftLeg.x exactly, leftLeg.x = sin(k * progress
\* before the call) * amplitude and rightLeg.x = sin(k * progress + Math.PI) *
\* amplitude, which is -leftLeg.x only up to the rounding of Math.PI; at
\* progress 0 leftLeg.x and rightArm.x are exactly 0 and rightLeg.x and
\* leftArm.x are sin(Math.PI) * amplitude, within rounding of 0.
C8_SwingOppositeWithinRounding ==
  [][ (UpdateStep /\ ~Before.paused /\ Before.kind \in {"Walking", "Running"}) =>
        /\ player'.leftArmRotX = player'.rightLegRotX
        /\ player'.rightArmRotX = player'.leftLegRotX
        /\ player'.leftLegRotX = Swing(Before).left
        /\ player'.rightLegRotX = Swing(Before).right
        /\ Abs(player'.rightLegRotX + player'.leftLegRotX) <= 2
        /\ (Before.progress = 0 =>
              /\ player'.leftLegRotX = 0 /\ player'.rightArmRotX = 0
              /\ Abs(player'.rightLegRotX) <= 2) ]_vars

C8_Witness ==
  /\ last.op = "update" /\ last.hooks # <<>>
  /\ anim[1].kind = "Walking"
  /\ last.hooks[1][1] = 0
  /\ player.leftLegRotX = 0 /\ player.rightArmRotX = 0
  /\ player.rightLegRotX # 0 /\ player.leftArmRotX = player.rightLegRotX

\* C9: an instance is created with progress 0, speed 1 and paused false; an
\* update with deltaTime >= 0 and speed >= 0 never lowers progress, an update
\* made while paused keeps it, progress goes down across an update only when
\* speed * deltaTime < 0, pause and speed assignments keep it; and an update of
\* one instance changes no field of any other instance.
C9_ProgressMonotoneAndPrivate ==
  [][ /\ (last.op = "new" =>
            \A i \in DOMAIN anim :
              anim[i].progress = 0 /\ anim[i].speed = 1 /\ ~anim[i].paused)
      /\ UpdateStep =>
           /\ (last'.dt >= 0 /\ Before.speed >= 0 => After.progress >= Before.progress)
           /\ (Before.paused => After.progress = Before.progress)
           /\ (After.progress < Before.progress => ScaledDelta < 0)
           /\ \A j \in DOMAIN anim \ {last'.i} : anim'[j] = anim[j]
      /\ (last'.op \in {"speed", "paused"} =>
            \A i \in DOMAIN anim : anim'[i].progress = anim[i].progress) ]_vars

C9_Witness ==
  /\ last.op = "update" /\ last.i = 1 /\ last.dt > 0
  /\ anim[1].kind = "Waving" /\ anim[2].kind = "Waving"
  /\ anim[1].progress > 0 /\ anim[1].t > 0
  /\ anim[2] = NewAnimation("Waving")

\* C10 as stated: for every t in [0, 1], easeIn(t) <= t <= easeOut(t), both
\* within [0, 1]; easeInOutQuad is 0 at 0, 0.5 at 0.5 and 1 at 1, and its two
\* branches agree at 0.5.
C10_EasingBrackets ==
  (ease.done /\ 0 <= ease.t /\ ease.t <= FloatOne) =>
    /\ ease.easeIn <= ease.t /\ ease.t <= ease.easeOut
    /\ 0 <= ease.easeIn /\ ease.easeIn <= FloatOne
    /\ 0 <= ease.easeOut /\ ease.easeOut <= FloatOne
    /\ (ease.t = 0 => ease.easeInOutQuad = 0)
    /\ (2 * ease.t = FloatOne => 2 * ease.easeInOutQuad = FloatOne)
    /\ (ease.t = FloatOne => ease.easeInOutQuad = FloatOne)
    /\ FloatEaseInOutQuadLow(FloatOne \div 2) = FloatEaseInOutQuadHigh(FloatOne \div 2)

\* half the spacing of the doubles just below 1
HalfUlp == FloatOne \div 2 ^ (FloatPrecision + 1)

\* C10 amended: for every t in [0, 1], easeIn(t) <= t, and t <= easeOut(t)
\* when t is 0 or exceeds half the spacing of the doubles below 1; for a
\* smaller positive t, 1 - t rounds to 1 and easeOut(t) is 0.  Both lie within
\* [0, 1]; easeInOutQuad is 0 at 0, 0.5 at 0.5 and 1 at 1, and its two
\* branches agree at 0.5.
C10_EasingBracketsAboveRounding ==
  (ease.done /\ 0 <= ease.t /\ ease.t <= FloatOne) =>
    /\ ease.easeIn <= ease.t
    /\ (ease.t = 0 \/ ease.t > HalfUlp => ease.t <= ease.easeOut)
    /\ (0 < ease.t /\ ease.t <= HalfUlp => ease.easeOut = 0)
    /\ 0 <= ease.easeIn /\ ease.easeIn <= FloatOne
    /\ 0 <= ease.easeOut /\ ease.easeOut <= FloatOne
    /\ (ease.t = 0 => ease.easeInOutQuad = 0)
    /\ (2 * ease.t = FloatOne => 2 * ease.easeInOutQuad = FloatOne)
    /\ (ease.t = FloatOne => ease.easeInOutQuad = FloatOne)
    /\ FloatEaseInOutQuadLow(FloatOne \div 2) = FloatEaseInOutQuadHigh(FloatOne \div 2)

C10_Witness ==
  /\ ease.done /\ 2 * ease.t = FloatOne
  /\ 2 * ease.easeInOutQuad = FloatOne
  /\ ease.easeIn < ease.t /\ ease.t < ease.easeOut

====
